---- MODULE Spec2Model ----
(***************************************************************************)
(* Zillopoly: the game-slot ledger (batch creation, slot initialisation)   *)
(* and the fulfilment orchestrator onBatchGamesCreated that enriches the   *)
(* slots of a batch through the /api/random-listing endpoint and writes    *)
(* them back with initializeGame.                                          *)
(*                                                                         *)
(* The orchestrator is translated from src/test/Zillopoly.test.js          *)
(* (lines 253-438).  The ledger operations requestBatch / initializeSlot   *)
(* are only declared there (ZILLOPOLY_ABI); their behaviour is taken from  *)
(* spec.md section 4.1.                                                    *)
(***************************************************************************)
EXTENDS Integers, Sequences, FiniteSets, TLC

\* ---------------------------------------------------------------- bounds
MaxGames == 3      \* game ids the ledger hands out in one run of the model
MaxBatch == 3      \* largest n tried in requestBatch(player, n)

\* ------------------------------------------------------------ identities
Oracle == "oracle"
Players == {"alice"}
Callers == Players \cup {Oracle}
Inst == {1, 2}          \* orchestrator instances
SeqInst == {1}          \* the single worker of the sequential specification

\* -------------------------------------------------------------- data
NoListing == [listingId |-> 0, displayedPrice |-> 0]
\* contractData of the listings the enrichment endpoint may return
Listings == {[listingId |-> 1, displayedPrice |-> 85],
             [listingId |-> 2, displayedPrice |-> 115]}
\* the shapes of an http.fetch response the handler distinguishes
FetchResponses ==
    {[ok |-> FALSE, statusCode |-> 500, success |-> FALSE],
     [ok |-> TRUE,  statusCode |-> 204, success |-> FALSE],
     [ok |-> TRUE,  statusCode |-> 200, success |-> FALSE],
     [ok |-> TRUE,  statusCode |-> 200, success |-> TRUE]}
NoNote == [player |-> "none", startGameId |-> 0, endGameId |-> -1]
NoCall == [op |-> "none", caller |-> "none", arg |-> 0, result |-> "none"]
NoReturn == [kind |-> "none", results |-> << >>]

VARIABLES
    nextGameId,   \* ledger: next id to assign
    slots,        \* ledger: gameId -> GameSlot
    batches,      \* ledger: BatchRequest records / notifications emitted
    lastCall,     \* ledger: the last operation called and how it ended
    pc,           \* orchestrator: position of each invocation
    note,         \* orchestrator: eventData of the notification handled
    idx,          \* orchestrator: loop variable i
    fetched,      \* orchestrator: listingData.contractData of the item
    results,      \* orchestrator: the results array
    ret,          \* orchestrator: value the handler returned
    calls,        \* history: external calls of the invocation, in order
    before,       \* history: the ledger's slots when the invocation began
    disturbed,    \* history: another party changed a slot meanwhile
    apc,          \* api: position of the /api/random-listing request
    randomListing,\* api: the listing picked from data.props
    multiplier,   \* api: the multiplier variable of fetchRandomListing
    apiRet,       \* api: what fetchRandomListing returned
    httpStatus,   \* api: status code the route answered with
    queries,      \* history: queries to the listing source in this request
    draws,        \* history: multipliers obtained in this request (saturating)
    lastQuery,    \* history: what the listing source answered
    lastDraw,     \* history: how the last multiplier was obtained
    houseBalance, \* contract: houseBalance
    maxBet,       \* contract: maxBet
    balances,     \* token: balanceOf
    allowance,     \* token: what each account lets the contract spend
    playerHistory,\* contract: playerHistory
    allGames,     \* contract: allGames
    lastTx        \* history: the last contract call and whether it reverted

ledgerVars == <<nextGameId, slots, batches, lastCall>>
orchVars == <<pc, note, idx, fetched, results, ret, calls, before>>
apiVars == <<apc, randomListing, multiplier, apiRet, httpStatus,
             queries, draws, lastQuery, lastDraw>>
gameVars == <<houseBalance, maxBet, balances, allowance, playerHistory,
              allGames, lastTx>>
pipelineVars == <<nextGameId, slots, batches, lastCall,
                  pc, note, idx, fetched, results, ret, calls, before, disturbed>>
vars == <<nextGameId, slots, batches, lastCall,
          pc, note, idx, fetched, results, ret, calls, before, disturbed,
          apc, randomListing, multiplier, apiRet, httpStatus,
          queries, draws, lastQuery, lastDraw,
          houseBalance, maxBet, balances, allowance, playerHistory,
          allGames, lastTx>>

Running(k) == pc[k] \in {"fetch", "write"}
InRange(k, g) == note[k].startGameId <= g /\ g <= note[k].endGameId
\* faulty variant: the loop bound is one too large
numGamesInclusive(k) == note[k].endGameId - note[k].startGameId + 2
numGames(k) == note[k].endGameId - note[k].startGameId + 1
\* faulty variant: the range is walked from its upper end
currentGameIdDescending(k) == note[k].endGameId - idx[k]
currentGameId(k) == note[k].startGameId + idx[k]

InitPipeline ==
    /\ nextGameId = 0
    /\ slots = << >>
    /\ batches = << >>
    /\ lastCall = NoCall
    /\ pc = [k \in Inst |-> "idle"]
    /\ note = [k \in Inst |-> NoNote]
    /\ idx = [k \in Inst |-> 0]
    /\ fetched = [k \in Inst |-> NoListing]
    /\ results = [k \in Inst |-> << >>]
    /\ ret = [k \in Inst |-> NoReturn]
    /\ calls = [k \in Inst |-> << >>]
    /\ before = [k \in Inst |-> << >>]
    /\ disturbed = [k \in Inst |-> FALSE]

\* ------------------------------------------- enrichment endpoint: data
\* (src/api/src/index.js 48-182)
RandomSteps == 62  \* Math.random() takes the values j / RandomSteps, j < RandomSteps
MaxProps == 2      \* longest result set the listing source answers with
MaxDraws == 2      \* the history counter draws saturates here

\* entries of data.props: a listing may come without a price
Catalog ==
    {[zpid |-> 2077, price |-> <<500000>>],
     [zpid |-> 31,   price |-> <<100250>>],
     [zpid |-> 409,  price |-> <<1>>],
     [zpid |-> 5,    price |-> << >>]}
NoProp == [zpid |-> 0, price |-> << >>]
PropsLists == UNION {[1..n -> Catalog] : n \in 0..MaxProps}
\* what the listing source can answer: the call throws, a non-success status,
\* a body without props, a body with props
ListingAnswers ==
    {[kind |-> "error", hasProps |-> FALSE, props |-> << >>],
     [kind |-> "notOk", hasProps |-> FALSE, props |-> << >>],
     [kind |-> "ok",    hasProps |-> FALSE, props |-> << >>]}
    \cup {[kind |-> "ok", hasProps |-> TRUE, props |-> ps] : ps \in PropsLists}
NoAnswer == [kind |-> "none", hasProps |-> FALSE, props |-> << >>]

RECURSIVE Digits(_)
\* Number.prototype.toString(): the decimal digits of n
Digits(n) == IF n < 10 THEN <<n>> ELSE Append(Digits(n \div 10), n % 10)

\* what the randomness source can answer: the call throws, a non-success
\* status, or the text of randomInt(85,116)
RandomnessAnswers ==
    {[kind |-> "error", text |-> << >>], [kind |-> "notOk", text |-> << >>]}
    \cup {[kind |-> "ok", text |-> Digits(v)] : v \in 85..115}
NoDraw == [kind |-> "none", value |-> 0]
NoApiReturn == [success |-> FALSE, error |-> "none"]

\* ------------------------------------------------ game contract: data
\* (src/api/src/index.js 217-381; amounts in units of half a HOBO)
MIN_BET == 2
InitialMaxBet == 200
InitialSupply == 4     \* HOBO minted to the deployer
MaxPlays == 2          \* plays recorded in one run of the model
Owner == "owner"
Contract == "zillopoly"
Accounts == {Owner} \cup Players
Holders == Accounts \cup {Contract}
NoTx == [op |-> "none", caller |-> "none", amount |-> 0, threshold |-> 0,
         reverted |-> FALSE]
\* arguments the calls of the model are made with
PlayArgs ==        \* <<betAmount, threshold>>
    {<<1, 50>>, <<201, 50>>, <<2, 0>>, <<2, 100>>, <<2, 50>>}
Guesses == {"UNDER", "OVER"}
HashValues == {0, 49, 99}    \* values of the keccak256 digest, modulo 100
HouseAmounts == {2}
MaxBetValues == {1, 2}
ApproveAmounts == {2}
TransferAmounts == {2}

InitApi ==
    /\ apc = "idle"
    /\ randomListing = NoProp
    /\ multiplier = 0
    /\ apiRet = NoApiReturn
    /\ httpStatus = 0
    /\ queries = 0
    /\ draws = 0
    /\ lastQuery = NoAnswer
    /\ lastDraw = NoDraw

InitGame ==
    /\ houseBalance = 0
    /\ maxBet = InitialMaxBet
    /\ balances = [a \in Holders |-> IF a = Owner THEN InitialSupply ELSE 0]
    /\ allowance = [a \in Accounts |-> 0]
    /\ playerHistory = [a \in Accounts |-> << >>]
    /\ allGames = << >>
    /\ lastTx = NoTx

Init == InitPipeline /\ InitApi /\ InitGame
\* ------------------------------------------------------------- ledger
\* (spec.md 4.1; declared by ZILLOPOLY_ABI)
PendingSlot(player) ==
    [player |-> player, status |-> "Pending", listingId |-> 0, displayedPrice |-> 0]

requestBatchResult(n) == IF n = 0 THEN "InvalidSize" ELSE "ok"

\* faulty variant: the range runs one id too far
newBatchOffByOne(player, next, n) ==
    [player |-> player, startGameId |-> next, endGameId |-> next + n]

\* the BatchRequest requestBatch(player, n) issues when the next id is next
newBatch(player, next, n) ==
    [player |-> player, startGameId |-> next, endGameId |-> next + n - 1]

slotsAfterBatch(player, n) ==
    [g \in 0..(nextGameId + n - 1) |->
        IF g < nextGameId THEN slots[g] ELSE PendingSlot(player)]

\* faulty variant: the status of the slot is not checked
initializeSlotResultNoGuard(caller, gameId) ==
    IF caller # Oracle THEN "Unauthorized"
    ELSE IF gameId \notin DOMAIN slots THEN "InvalidState"
         ELSE "ok"

\* faulty variant: the caller is not checked
initializeSlotResultNoAuth(caller, gameId) ==
    IF gameId \notin DOMAIN slots \/ slots[gameId].status # "Pending"
    THEN "InvalidState"
    ELSE "ok"

initializeSlotResult(caller, gameId) ==
    IF caller # Oracle THEN "Unauthorized"
    ELSE IF gameId \notin DOMAIN slots \/ slots[gameId].status # "Pending"
         THEN "InvalidState"
         ELSE "ok"

slotsAfterInitialize(caller, gameId, listingId, displayedPrice) ==
    IF initializeSlotResult(caller, gameId) = "ok"
    THEN [slots EXCEPT ![gameId] = [@ EXCEPT !.status = "Initialized",
                                              !.listingId = listingId,
                                              !.displayedPrice = displayedPrice]]
    ELSE slots

\* instances other than self that are mid-batch over a range holding gameId
Disturb(self, gameId) ==
    [k \in Inst |-> disturbed[k] \/ (k # self /\ Running(k) /\ InRange(k, gameId))]

RequestBatch(player, n) ==
    /\ nextGameId + n <= MaxGames
    /\ lastCall' = [op |-> "requestBatch", caller |-> player, arg |-> n,
                    result |-> requestBatchResult(n)]
    /\ IF requestBatchResult(n) = "ok"
       THEN /\ slots' = slotsAfterBatch(player, n)
            /\ batches' = Append(batches, newBatch(player, nextGameId, n))
            /\ nextGameId' = nextGameId + n
       ELSE UNCHANGED <<slots, batches, nextGameId>>
    /\ UNCHANGED <<orchVars, disturbed>>
    /\ UNCHANGED <<apiVars, gameVars>>

\* initializeSlot called directly (not through the orchestrator)
InitializeSlot(caller, gameId, l) ==
    /\ lastCall' = [op |-> "initializeSlot", caller |-> caller, arg |-> gameId,
                    result |-> initializeSlotResult(caller, gameId)]
    /\ slots' = slotsAfterInitialize(caller, gameId, l.listingId, l.displayedPrice)
    /\ disturbed' = IF slots' # slots THEN Disturb(0, gameId) ELSE disturbed
    /\ UNCHANGED <<nextGameId, batches, orchVars>>
    /\ UNCHANGED <<apiVars, gameVars>>

\* faulty variant: a slot can be played before it is initialised
PlaySlotAnyState(gameId) ==
    /\ gameId \in DOMAIN slots
    /\ slots[gameId].status \in {"Pending", "Initialized"}
    /\ slots' = [slots EXCEPT ![gameId].status = "Played"]
    /\ lastCall' = [op |-> "play", caller |-> slots[gameId].player,
                    arg |-> gameId, result |-> "ok"]
    /\ disturbed' = Disturb(0, gameId)
    /\ UNCHANGED <<nextGameId, batches, orchVars>>
    /\ UNCHANGED <<apiVars, gameVars>>

\* the downstream play / settlement transitions of a slot (spec.md 3, 4.1)
PlaySlot(gameId) ==
    /\ gameId \in DOMAIN slots
    /\ slots[gameId].status = "Initialized"
    /\ slots' = [slots EXCEPT ![gameId].status = "Played"]
    /\ lastCall' = [op |-> "play", caller |-> slots[gameId].player,
                    arg |-> gameId, result |-> "ok"]
    /\ disturbed' = Disturb(0, gameId)
    /\ UNCHANGED <<nextGameId, batches, orchVars>>
    /\ UNCHANGED <<apiVars, gameVars>>

SettleSlot(gameId) ==
    /\ gameId \in DOMAIN slots
    /\ slots[gameId].status = "Played"
    /\ slots' = [slots EXCEPT ![gameId].status = "Settled"]
    /\ lastCall' = [op |-> "settle", caller |-> slots[gameId].player,
                    arg |-> gameId, result |-> "ok"]
    /\ disturbed' = Disturb(0, gameId)
    /\ UNCHANGED <<nextGameId, batches, orchVars>>
    /\ UNCHANGED <<apiVars, gameVars>>

\* ------------------------------------------------------- orchestrator
\* onBatchGamesCreated (src/test/Zillopoly.test.js 312-414)

\* if (!response.ok || response.statusCode !== 200)
ApiRequestFailed(resp) == ~resp.ok \/ resp.statusCode # 200
\* faulty variant: the success flag of the body is ignored
NoListingDataIgnored(resp) == FALSE

\* if (!listingData.success)
NoListingData(resp) == ~resp.success

failedEntry(k, err) ==
    [gameId |-> currentGameId(k), status |-> "failed", error |-> err]
successEntry(k) ==
    [gameId |-> currentGameId(k), status |-> "success",
     listingId |-> fetched[k].listingId,
     displayedPrice |-> fetched[k].displayedPrice]

\* history entries: the response http.fetch gave, how evm.write ended
fetchCall(k, resp) ==
    [gameId |-> currentGameId(k), kind |-> "fetch", resp |-> resp]
writeCall(k, outcome, thrown) ==
    [gameId |-> currentGameId(k), kind |-> "write", outcome |-> outcome,
     thrown |-> thrown]

\* delivery of a BatchGamesCreated notification starts the handler; delivery
\* is at least once, so any notification issued so far may arrive (again)
Receive(k, b) ==
    /\ pc[k] \in {"idle", "done"}
    /\ b \in 1..Len(batches)
    /\ pc' = [pc EXCEPT ![k] = "fetch"]
    /\ note' = [note EXCEPT ![k] = batches[b]]
    /\ idx' = [idx EXCEPT ![k] = 0]
    /\ fetched' = [fetched EXCEPT ![k] = NoListing]
    /\ results' = [results EXCEPT ![k] = << >>]
    /\ ret' = [ret EXCEPT ![k] = NoReturn]
    /\ calls' = [calls EXCEPT ![k] = << >>]
    /\ before' = [before EXCEPT ![k] = slots]
    /\ disturbed' = [disturbed EXCEPT ![k] = FALSE]
    /\ UNCHANGED ledgerVars
    /\ UNCHANGED <<apiVars, gameVars>>

\* faulty variant: the failed outcome is put in front of the report
SkipItemUnshift(k, err) ==
    /\ results' = [results EXCEPT ![k] = <<failedEntry(k, err)>> \o @]
    /\ idx' = [idx EXCEPT ![k] = @ + 1]
    /\ UNCHANGED <<pc, fetched, ret>>

\* results.push({... status: "failed" ...}); continue;
SkipItem(k, err) ==
    /\ results' = [results EXCEPT ![k] = Append(@, failedEntry(k, err))]
    /\ idx' = [idx EXCEPT ![k] = @ + 1]
    /\ UNCHANGED <<pc, fetched, ret>>

\* faulty variant: the handler goes on to the next id without awaiting evm.write
FetchStepNoAwait(k, resp, l) ==
    /\ calls' = [calls EXCEPT ![k] = Append(@, fetchCall(k, resp))]
    /\ IF ApiRequestFailed(resp) THEN SkipItem(k, "API request failed")
       ELSE IF NoListingData(resp) THEN SkipItem(k, "No listing data")
       ELSE /\ fetched' = [fetched EXCEPT ![k] = l]
            /\ idx' = [idx EXCEPT ![k] = @ + 1]
            /\ UNCHANGED <<pc, results, ret>>

\* what the handler does with the response of http.fetch
FetchStep(k, resp, l) ==
    /\ calls' = [calls EXCEPT ![k] = Append(@, fetchCall(k, resp))]
    /\ IF ApiRequestFailed(resp) THEN SkipItem(k, "API request failed")
       ELSE IF NoListingData(resp) THEN SkipItem(k, "No listing data")
       ELSE /\ fetched' = [fetched EXCEPT ![k] = l]
            /\ pc' = [pc EXCEPT ![k] = "write"]
            /\ UNCHANGED <<idx, results, ret>>

Fetch(k) ==
    /\ pc[k] = "fetch"
    /\ idx[k] < numGames(k)
    /\ \E resp \in FetchResponses, l \in Listings : FetchStep(k, resp, l)
    /\ UNCHANGED <<ledgerVars, note, before, disturbed>>
    /\ UNCHANGED <<apiVars, gameVars>>

\* the catch block around the whole handler: return {error}
Abort(k) ==
    /\ pc' = [pc EXCEPT ![k] = "done"]
    /\ ret' = [ret EXCEPT ![k] = [kind |-> "error", results |-> << >>]]
    /\ idx' = [idx EXCEPT ![k] = 0]
    /\ fetched' = [fetched EXCEPT ![k] = NoListing]
    /\ results' = [results EXCEPT ![k] = << >>]

\* what the handler does once evm.write has settled: a rejected promise
\* unwinds to the catch block, any returned txResponse is pushed as success
WriteStep(k, thrown) ==
    IF thrown THEN Abort(k)
    ELSE /\ results' = [results EXCEPT ![k] = Append(@, successEntry(k))]
         /\ idx' = [idx EXCEPT ![k] = @ + 1]
         /\ pc' = [pc EXCEPT ![k] = "fetch"]
         /\ fetched' = [fetched EXCEPT ![k] = NoListing]
         /\ UNCHANGED ret

\* outcome of evm.write for the current item: the transaction is lost on the
\* way (submission / confirmation failure) or the ledger runs initializeGame
writeOutcome(k, delivered) ==
    IF ~delivered THEN "TransactionError"
    ELSE IF initializeSlotResult(Oracle, currentGameId(k)) = "ok" THEN "accepted"
    ELSE initializeSlotResult(Oracle, currentGameId(k))

Write(k) ==
    /\ pc[k] = "write"
    /\ \E delivered \in BOOLEAN, thrown \in BOOLEAN :
         /\ writeOutcome(k, delivered) = "accepted" => ~thrown
         /\ calls' = [calls EXCEPT ![k] = Append(@,
                writeCall(k, writeOutcome(k, delivered), thrown))]
         /\ IF delivered
            THEN /\ slots' = slotsAfterInitialize(Oracle, currentGameId(k),
                                fetched[k].listingId, fetched[k].displayedPrice)
                 /\ lastCall' = [op |-> "initializeSlot", caller |-> Oracle,
                                 arg |-> currentGameId(k),
                                 result |-> initializeSlotResult(Oracle, currentGameId(k))]
            ELSE UNCHANGED <<slots, lastCall>>
         /\ disturbed' = IF slots' # slots THEN Disturb(k, currentGameId(k))
                         ELSE disturbed
         /\ WriteStep(k, thrown)
    /\ UNCHANGED <<nextGameId, batches, note, before>>
    /\ UNCHANGED <<apiVars, gameVars>>

\* the loop is over: return JSON.stringify(summary)
Return(k) ==
    /\ pc[k] = "fetch"
    /\ idx[k] >= numGames(k)
    /\ pc' = [pc EXCEPT ![k] = "done"]
    /\ ret' = [ret EXCEPT ![k] = [kind |-> "summary", results |-> results[k]]]
    /\ idx' = [idx EXCEPT ![k] = 0]
    /\ results' = [results EXCEPT ![k] = << >>]
    /\ UNCHANGED <<ledgerVars, note, fetched, calls, before, disturbed>>
    /\ UNCHANGED <<apiVars, gameVars>>

\* ------------------------------------------------------ specification
\* The fulfilment pipeline: batches are requested, one orchestrator worker
\* handles the notifications (and their replays) one at a time.
Next ==
    \/ \E p \in Players, n \in 0..MaxBatch : RequestBatch(p, n)
    \/ \E k \in SeqInst, b \in 1..MaxGames : Receive(k, b)
    \/ \E k \in SeqInst : Fetch(k)
    \/ \E k \in SeqInst : Write(k)
    \/ \E k \in SeqInst : Return(k)

Spec == Init /\ [][Next]_vars

\* The ledger's operation surface driven by arbitrary callers.
NextLedger ==
    \/ \E p \in Players, n \in 0..MaxBatch : RequestBatch(p, n)
    \/ \E c \in Callers, g \in 0..MaxGames, l \in Listings : InitializeSlot(c, g, l)
    \/ \E g \in 0..MaxGames : PlaySlot(g)
    \/ \E g \in 0..MaxGames : SettleSlot(g)

SpecLedger == Init /\ [][NextLedger]_vars

\* ============================================================ claims
Last(s) == s[Len(s)]
Range(k) == note[k].startGameId..note[k].endGameId
\* the reason an outcome entry carries, if any
reasonOf(e) == IF "error" \in DOMAIN e THEN e.error ELSE "none"
\* the enrichment call failed: not ok, a status other than 200, success = false
EnrichmentFailed(resp) == ~resp.ok \/ resp.statusCode # 200 \/ ~resp.success
FetchCalls(k) == {j \in 1..Len(calls[k]) : calls[k][j].kind = "fetch"}
WriteCalls(k) == {j \in 1..Len(calls[k]) : calls[k][j].kind = "write"}
\* F: the ids of the invocation whose enrichment failed
FailedIds(k) ==
    {calls[k][j].gameId : j \in {i \in FetchCalls(k) : EnrichmentFailed(calls[k][i].resp)}}
AllWritesAccepted(k) == \A j \in WriteCalls(k) : calls[k][j].outcome = "accepted"
\* this step of invocation k is the settling of its evm.write with outcome o
WriteSettles(k, o) ==
    /\ pc[k] = "write"
    /\ Len(calls'[k]) = Len(calls[k]) + 1
    /\ Last(calls'[k]).outcome = o
\* this step of invocation k is an http.fetch whose response is a failure
FetchFails(k) ==
    /\ pc[k] = "fetch"
    /\ Len(calls'[k]) = Len(calls[k]) + 1
    /\ EnrichmentFailed(Last(calls'[k]).resp)
\* the handler returned a report with one entry per id of the range, in order
FullReport(k) ==
    /\ ret[k].kind = "summary"
    /\ Len(ret[k].results) = numGames(k)
    /\ \A j \in 1..Len(ret[k].results) :
          ret[k].results[j].gameId = note[k].startGameId + j - 1

\* C1: whatever the per-item outcomes, an invocation of onBatchGamesCreated
\* never aborts early: it returns a report holding exactly one outcome entry
\* for every id of [startGameId, endGameId].
C1_NeverAbortsEarly == \A k \in Inst : pc[k] = "done" => FullReport(k)

\* C2: when the ledger call for id g fails for a reason other than
\* InvalidState, the orchestrator records {g, failed, "TransactionError"},
\* slot g is left as it was (Pending), and processing goes on with g+1.
C2_TransactionErrorRecorded ==
    [][\A k \in Inst : WriteSettles(k, "TransactionError") =>
          /\ results'[k] = Append(results[k],
                [gameId |-> currentGameId(k), status |-> "failed",
                 error |-> "TransactionError"])
          /\ slots' = slots
          /\ pc'[k] = "fetch"
          /\ idx'[k] = idx[k] + 1]_vars

\* C3: when the ledger call for id g fails with InvalidState, the orchestrator
\* records {g, success, "already-initialized"}, does not treat it as an error,
\* and goes on with the next id.
C3_InvalidStateIsBenign ==
    [][\A k \in Inst : WriteSettles(k, "InvalidState") =>
          /\ Len(results'[k]) = Len(results[k]) + 1
          /\ Last(results'[k]).gameId = currentGameId(k)
          /\ Last(results'[k]).status = "success"
          /\ reasonOf(Last(results'[k])) = "already-initialized"
          /\ pc'[k] = "fetch"
          /\ idx'[k] = idx[k] + 1]_vars

\* C4: when enrichment for id g fails (call not ok, status other than 200, or
\* success = false), the orchestrator appends a failed outcome for g, writes
\* nothing to the ledger for g, and goes on with the next id.
C4_EnrichmentFailureSkips ==
    [][\A k \in Inst : FetchFails(k) =>
          /\ Len(results'[k]) = Len(results[k]) + 1
          /\ SubSeq(results'[k], 1, Len(results[k])) = results[k]
          /\ Last(results'[k]).gameId = currentGameId(k)
          /\ Last(results'[k]).status = "failed"
          /\ slots' = slots
          /\ pc'[k] = "fetch"
          /\ idx'[k] = idx[k] + 1]_vars

\* an enrichment failure has just been recorded for an id that is not the
\* last of its range, its slot still Pending
C4_Witness ==
    \E k \in Inst :
        /\ pc[k] = "fetch"
        /\ idx[k] >= 1
        /\ idx[k] < numGames(k)
        /\ Last(calls[k]).kind = "fetch"
        /\ Last(calls[k]).resp.ok
        /\ Last(calls[k]).resp.statusCode = 200
        /\ ~Last(calls[k]).resp.success
        /\ Last(results[k]).status = "failed"
        /\ Last(results[k]).gameId = currentGameId(k) - 1
        /\ slots[currentGameId(k) - 1].status = "Pending"

C6_ReplaySafety ==
    \A k \in Inst :
      (/\ pc[k] = "done"
       /\ ~disturbed[k]
       /\ \E g \in Range(k) : before[k][g].status # "Pending") =>
        /\ FullReport(k)
        /\ \A g \in Range(k) :
              /\ before[k][g].status # "Pending" => slots[g] = before[k][g]
              /\ \A j \in WriteCalls(k) : calls[k][j].gameId = g =>
                    IF before[k][g].status # "Pending"
                    THEN \E i \in 1..Len(ret[k].results) :
                            /\ ret[k].results[i].gameId = g
                            /\ ret[k].results[i].status = "success"
                            /\ reasonOf(ret[k].results[i]) = "already-initialized"
                    ELSE calls[k][j].outcome = "accepted" =>
                            slots[g].status = "Initialized"

\* this step is a call of initializeSlot / of requestBatch on the ledger
InitializeCalled ==
    lastCall'.op = "initializeSlot" /\ (lastCall' # lastCall \/ slots' # slots)
BatchRequested ==
    lastCall'.op = "requestBatch" /\ (lastCall' # lastCall \/ batches' # batches)

\* C7: initializeSlot by the oracle on a slot that is not Pending fails with
\* InvalidState and changes no slot; on a Pending slot it sets listingId,
\* displayedPrice and status = Initialized in one step, touching no other slot.
C7_InitializeSlotIdempotent ==
    [][(InitializeCalled /\ lastCall'.caller = Oracle) =>
          LET g == lastCall'.arg
          IN  IF g \in DOMAIN slots /\ slots[g].status = "Pending"
              THEN /\ lastCall'.result = "ok"
                   /\ slots'[g].status = "Initialized"
                   /\ slots'[g].player = slots[g].player
                   /\ \E l \in Listings :
                         /\ slots'[g].listingId = l.listingId
                         /\ slots'[g].displayedPrice = l.displayedPrice
                   /\ \A h \in DOMAIN slots \ {g} : slots'[h] = slots[h]
              ELSE /\ lastCall'.result = "InvalidState"
                   /\ slots' = slots]_vars

\* a second initializeSlot on an Initialized slot was answered InvalidState and
\* the slot kept the values of the first
C7_Witness ==
    /\ lastCall.op = "initializeSlot"
    /\ lastCall.caller = Oracle
    /\ lastCall.result = "InvalidState"
    /\ lastCall.arg \in DOMAIN slots
    /\ slots[lastCall.arg].status = "Initialized"
    /\ slots[lastCall.arg].listingId = 1
    /\ slots[lastCall.arg].displayedPrice = 85

\* C8: requestBatch(player, n) with n >= 1 issues a range of exactly n
\* contiguous ids, none assigned before and disjoint from every earlier range,
\* creates the n slots Pending and emits the notification; with n = 0 it
\* fails with InvalidSize and creates nothing.
C8_RequestBatchAllocates ==
    [][BatchRequested =>
          LET n == lastCall'.arg
          IN  IF n >= 1
              THEN /\ lastCall'.result = "ok"
                   /\ Len(batches') = Len(batches) + 1
                   /\ SubSeq(batches', 1, Len(batches)) = batches
                   /\ LET b == Last(batches')
                          new == b.startGameId..b.endGameId
                      IN  /\ b.player = lastCall'.caller
                          /\ b.endGameId - b.startGameId + 1 = n
                          /\ Cardinality(new) = n
                          /\ new \cap DOMAIN slots = {}
                          /\ \A i \in 1..Len(batches) :
                                new \cap (batches[i].startGameId..batches[i].endGameId) = {}
                          /\ DOMAIN slots' = DOMAIN slots \cup new
                          /\ \A g \in new : slots'[g] = PendingSlot(b.player)
                          /\ \A g \in DOMAIN slots : slots'[g] = slots[g]
              ELSE /\ lastCall'.result = "InvalidSize"
                   /\ UNCHANGED <<slots, batches, nextGameId>>]_vars

\* two ranges have been issued, the later of two ids or more, and a
\* requestBatch of size 0 has just been refused
C8_Witness ==
    /\ Len(batches) >= 2
    /\ Last(batches).endGameId > Last(batches).startGameId
    /\ Last(batches).startGameId = batches[1].endGameId + 1
    /\ \A g \in Last(batches).startGameId..Last(batches).endGameId :
          slots[g].status = "Pending"
    /\ lastCall.op = "requestBatch"
    /\ lastCall.arg = 0
    /\ lastCall.result = "InvalidSize"

Rank(status) ==
    CASE status = "Pending" -> 0
      [] status = "Initialized" -> 1
      [] status = "Played" -> 2
      [] status = "Settled" -> 3

\* C9: a slot starts Pending and its status only ever moves one state forward
\* along Pending -> Initialized -> Played -> Settled; Initialized is entered
\* only from Pending and only by an accepted initializeSlot on that slot, and
\* a call of initializeSlot changes no status in any other way.
C9_StatusMonotonic ==
    [][/\ \A g \in DOMAIN slots' \ DOMAIN slots : slots'[g].status = "Pending"
       /\ \A g \in DOMAIN slots :
            /\ g \in DOMAIN slots'
            /\ slots'[g].status # slots[g].status =>
                 /\ Rank(slots'[g].status) = Rank(slots[g].status) + 1
                 /\ slots'[g].status = "Initialized" =>
                       /\ lastCall'.op = "initializeSlot"
                       /\ lastCall'.arg = g
                       /\ lastCall'.result = "ok"
                 /\ InitializeCalled =>
                       /\ lastCall'.arg = g
                       /\ slots[g].status = "Pending"
                       /\ slots'[g].status = "Initialized"]_vars

\* initializeSlot has been called again on a slot that is already Settled
C9_Witness ==
    /\ lastCall.op = "initializeSlot"
    /\ lastCall.caller = Oracle
    /\ lastCall.arg \in DOMAIN slots
    /\ slots[lastCall.arg].status = "Settled"
    /\ \E g \in DOMAIN slots : slots[g].status = "Played"

\* C10: initializeSlot succeeds only for the oracle identity; called by anyone
\* else it fails with Unauthorized and leaves every slot unchanged.
C10_OnlyOracleInitializes ==
    [][InitializeCalled =>
          /\ lastCall'.caller # Oracle =>
                (lastCall'.result = "Unauthorized" /\ slots' = slots)
          /\ lastCall'.result = "ok" => lastCall'.caller = Oracle]_vars

\* a player called initializeSlot on a Pending slot and was refused
C10_Witness ==
    /\ lastCall.op = "initializeSlot"
    /\ lastCall.caller \in Players
    /\ lastCall.result = "Unauthorized"
    /\ lastCall.arg \in DOMAIN slots
    /\ slots[lastCall.arg].status = "Pending"

\* ===================================================================
\* Enrichment endpoint (src/api/src/index.js 48-182)
\* ===================================================================

RECURSIVE parseInt(_)
\* parseInt of a string of decimal digits
parseInt(ds) ==
    IF ds = << >> THEN 0
    ELSE 10 * parseInt(SubSeq(ds, 1, Len(ds) - 1)) + ds[Len(ds)]

\* String.prototype.padStart(len, d) on a sequence of characters
padStart(ds, len, d) ==
    IF Len(ds) >= len THEN ds ELSE [i \in 1..(len - Len(ds)) |-> d] \o ds

\* Math.floor(Math.random() * n) when Math.random() = j / RandomSteps
floorRandom(j, n) == (j * n) \div RandomSteps

\* the catch branch of getRandomPriceMultiplier taken with a wrong offset
fallbackMultiplierShifted(j) == floorRandom(j, 31) + 86

\* the catch branch of getRandomPriceMultiplier
fallbackMultiplier(j) == floorRandom(j, 31) + 85

\* getRandomPriceMultiplier: the source's number, or the fallback when the
\* call throws or answers with a non-success status
getRandomPriceMultiplier(ans, j) ==
    IF ans.kind = "ok" THEN parseInt(ans.text) ELSE fallbackMultiplier(j)

\* the loop guard of fetchRandomListing, never asking for another draw
needsResampleNever(m) == FALSE

\* the loop guard of fetchRandomListing: while (multiplier === 100)
needsResample(m) == m = 100

\* multiplier / 100 is a double: with s = 53 below 100 and s = 52 from 100 on,
\* it is (m * 2^s + 100 * doubleError(m)) / (100 * 2^s) with the numerator's
\* first term rounded to the nearest multiple of 100
doubleError(m) ==
    LET r == (m * (IF m < 100 THEN 92 ELSE 96)) % 100
    IN  IF r > 50 THEN 100 - r ELSE -r

RECURSIVE pow2Floor(_)
\* the largest power of two that is at most k (1 for k < 2)
pow2Floor(k) == IF k < 2 THEN 1 ELSE 2 * pow2Floor(k \div 2)

\* Math.round(actualPrice * (multiplier / 100)) in double arithmetic: the
\* product is exact unless actualPrice * multiplier / 100 falls on a half;
\* there a quotient below multiplier / 100 can pull the product under the half
displayedPriceOf(p, m) ==
    LET k == (p * m) \div 100
        r == (p * m) % 100
        unit == IF m < 100 THEN 100 ELSE 50
    IN  IF r # 50 THEN (IF r > 50 THEN k + 1 ELSE k)
        ELSE IF doubleError(m) < 0 /\ p * (-doubleError(m)) > unit * pow2Floor(k)
             THEN k
             ELSE k + 1

\* randomListing.price || 0
actualPriceOf(l) == IF l.price = << >> THEN 0 ELSE l.price[1]

\* data.props && data.props.length > 1
hasListingsStrict(ans) == ans.hasProps /\ Len(ans.props) > 1

\* data.props && data.props.length > 0
hasListings(ans) == ans.hasProps /\ Len(ans.props) > 0

\* the object fetchRandomListing returns for listing l and multiplier m
listingResult(l, m) ==
    [success |-> TRUE,
     listing |-> l,
     contractData |-> [listingId |-> padStart(Digits(l.zpid), 64, 0),
                       displayedPrice |-> displayedPriceOf(actualPriceOf(l), m),
                       actualPrice |-> actualPriceOf(l)],
     priceInfo |-> [actual |-> actualPriceOf(l),
                    displayed |-> displayedPriceOf(actualPriceOf(l), m),
                    multiplier |-> m,
                    adjustmentPercent |-> m - 100]]

\* the object the catch branch of fetchRandomListing returns
listingFailure(ans) ==
    [success |-> FALSE,
     error |-> IF ans.kind = "error" THEN "fetch failed"
               ELSE IF ans.kind = "notOk" THEN "RapidAPI responded with status"
               ELSE "No listings found in the response"]

\* GET /api/random-listing is received; fetchRandomListing starts
StartRequest ==
    /\ apc \in {"idle", "done"}
    /\ apc' = "listing"
    /\ randomListing' = NoProp
    /\ multiplier' = 0
    /\ apiRet' = NoApiReturn
    /\ httpStatus' = 0
    /\ queries' = 0
    /\ draws' = 0
    /\ lastQuery' = NoAnswer
    /\ lastDraw' = NoDraw
    /\ UNCHANGED <<pipelineVars, gameVars>>

\* the listing source answers: a failure goes through the catch branch and
\* the route answers 500; otherwise a listing is picked and the first
\* multiplier is awaited
ListingResponse(ans, j) ==
    /\ apc = "listing"
    /\ queries' = queries + 1
    /\ lastQuery' = ans
    /\ IF ans.kind = "ok" /\ hasListings(ans)
       THEN /\ randomListing' = ans.props[floorRandom(j, Len(ans.props)) + 1]
            /\ apc' = "multiplier"
            /\ UNCHANGED <<apiRet, httpStatus>>
       ELSE /\ apiRet' = listingFailure(ans)
            /\ httpStatus' = 500
            /\ apc' = "done"
            /\ UNCHANGED randomListing
    /\ UNCHANGED <<multiplier, draws, lastDraw>>
    /\ UNCHANGED <<pipelineVars, gameVars>>

\* one call of getRandomPriceMultiplier returns; 100 is drawn again, any
\* other value completes the listing and the route answers with it
DrawMultiplier(ans, j) ==
    /\ apc = "multiplier"
    /\ multiplier' = getRandomPriceMultiplier(ans, j)
    /\ lastDraw' = [kind |-> ans.kind, value |-> multiplier']
    /\ draws' = IF draws < MaxDraws THEN draws + 1 ELSE draws
    /\ IF needsResample(multiplier')
       THEN UNCHANGED <<apc, apiRet, httpStatus>>
       ELSE /\ apiRet' = listingResult(randomListing, multiplier')
            /\ httpStatus' = 200
            /\ apc' = "done"
    /\ UNCHANGED <<randomListing, queries, lastQuery>>
    /\ UNCHANGED <<pipelineVars, gameVars>>

\* the values Math.random() can take where a step calls it: choosing among
\* the listings of an answer, falling back after a failed draw
PickRandoms(ans) ==
    IF ans.kind = "ok" /\ hasListings(ans) THEN 0..(RandomSteps - 1) ELSE {0}
FallbackRandoms(ans) ==
    IF ans.kind = "ok" THEN {0} ELSE 0..(RandomSteps - 1)

NextApi ==
    \/ StartRequest
    \/ \E ans \in ListingAnswers : \E j \in PickRandoms(ans) : ListingResponse(ans, j)
    \/ \E ans \in RandomnessAnswers : \E j \in FallbackRandoms(ans) : DrawMultiplier(ans, j)

SpecApi == Init /\ [][NextApi]_vars

\* ------------------------------------------------- claims C11 .. C15

\* a request has been answered with a listing
Returned == apc = "done" /\ apiRet.success

\* n / d rounded to the nearest integer, a half going up
roundHalfUp(n, d) == (2 * n + d) \div (2 * d)

\* n / d rounded to the nearest integer, a half going to the even neighbour
roundHalfEven(n, d) ==
    IF (2 * n) % (2 * d) = d /\ (n \div d) % 2 = 0 THEN n \div d
    ELSE roundHalfUp(n, d)

\* C11: every price derivation returned to a caller has an integer multiplier
\* in [85,115] other than 100, and displayedPrice is actualPrice * multiplier
\* / 100 rounded to the nearest integer (either convention for a half).
C11_PriceDerivation ==
    Returned =>
        LET m == apiRet.priceInfo.multiplier
            a == apiRet.contractData.actualPrice
            d == apiRet.contractData.displayedPrice
        IN  /\ m \in 85..115
            /\ m # 100
            /\ d \in {roundHalfUp(a * m, 100), roundHalfEven(a * m, 100)}
            /\ (a = 500000 /\ m = 115) => d = 575000

\* C12: every listing the endpoint returns has a displayedPrice different from
\* its actualPrice, whatever price the listing source supplied (a missing
\* price counts as 0).
C12_DisplayedDiffers ==
    Returned => apiRet.contractData.displayedPrice # apiRet.contractData.actualPrice

\* a call of getRandomPriceMultiplier returns a value other than 100
DrawValid ==
    \E ans \in RandomnessAnswers : \E j \in FallbackRandoms(ans) :
        DrawMultiplier(ans, j) /\ multiplier' # 100

\* the endpoint with a fair randomness source: the awaited draw resumes, and
\* the source does not answer 100 for ever
SpecApiFair == SpecApi /\ WF_vars(DrawValid)

\* C13: under a fair randomness source the resampling loop terminates with a
\* multiplier other than 100, and no returned price carries the multiplier 100.
C13_ResamplingTerminates ==
    /\ [](Returned => apiRet.priceInfo.multiplier # 100)
    /\ (apc = "multiplier") ~> (Returned /\ apiRet.priceInfo.multiplier # 100)

\* a listing was returned after 100 had been drawn and rejected
C13_Witness ==
    /\ Returned
    /\ draws >= 2
    /\ apiRet.priceInfo.multiplier = multiplier

\* C14: when the randomness source fails (the call throws or answers with a
\* non-success status) getRandomPriceMultiplier still returns a value, in
\* [85,115], and a request that completes on it completes with a listing.
C14_FallbackIsSilent ==
    [][(apc = "multiplier" /\ lastDraw'.kind \in {"error", "notOk"}) =>
          /\ multiplier' \in 85..115
          /\ lastDraw'.value = multiplier'
          /\ apc' \in {"multiplier", "done"}
          /\ apc' = "done" =>
                (apiRet'.success /\ httpStatus' = 200
                    /\ apiRet'.priceInfo.multiplier = multiplier')]_vars

\* a listing was returned on a multiplier drawn while the source was failing
C14_Witness ==
    /\ Returned
    /\ lastDraw.kind = "error"
    /\ apiRet.priceInfo.multiplier = lastDraw.value

\* the listing source's answer is a failure: the call threw, the status was a
\* non-success one, or the result set is missing or empty
ListingSourceFailed ==
    \/ lastQuery.kind \in {"error", "notOk"}
    \/ ~lastQuery.hasProps
    \/ lastQuery.props = << >>

canPull(from, amt) == allowance[from] >= amt /\ balances[from] >= amt

\* balances after amt moved from one holder to another
moved(bal, from, to, amt) ==
    IF from = to THEN bal
    ELSE [bal EXCEPT ![from] = @ - amt, ![to] = @ + amt]

\* modifier onlyOwner, letting every caller through
onlyOwnerAnyone(caller) == TRUE

\* modifier onlyOwner
onlyOwner(caller) == caller = Owner

\* play's require on threshold, with the lower end off by one
validThresholdFromZero(t) == t >= 0 /\ t <= 99

\* require(threshold >= 1 && threshold <= 99)
validThreshold(t) == t >= 1 /\ t <= 99

\* require(betAmount >= MIN_BET); require(betAmount <= maxBet)
validBet(b) == b >= MIN_BET /\ b <= maxBet

\* _generateRandomNumber: (random % 100) + 1
rolledNumber(h) == (h % 100) + 1

\* the win rule of play, a roll on the threshold winning
wonGameInclusive(guess, rolled, t) ==
    \/ guess = "UNDER" /\ rolled <= t
    \/ guess = "OVER" /\ rolled >= t

\* require(houseBalance >= betAmount), left out
houseCoversAlways(b) == TRUE

\* require(houseBalance >= betAmount)
houseCovers(b) == houseBalance >= b

\* the win rule of play
wonGame(guess, rolled, t) ==
    \/ guess = "UNDER" /\ rolled < t
    \/ guess = "OVER" /\ rolled > t

\* the winner's payout, paying the bet back only
payoutOfWinSingle(b) == b

\* payout = betAmount * 2
payoutOfWin(b) == b * 2

\* the GameResult that play records
gameResult(caller, b, t, guess, h) ==
    LET rolled == rolledNumber(h)
        won == wonGame(guess, rolled, t)
    IN  [player |-> caller, betAmount |-> b, threshold |-> t, guess |-> guess,
         rolledNumber |-> rolled, won |-> won,
         payout |-> IF won THEN payoutOfWin(b) ELSE 0]

\* push, dropping the result
pushResultDropped(hist, res) == hist

\* playerHistory[msg.sender].push(result) / allGames.push(result)
pushResult(hist, res) == Append(hist, res)

\* getTotalGames()
getTotalGames == Len(allGames)

\* getPlayerHistory(player)
getPlayerHistory(player) == playerHistory[player]

\* a transaction that reverts: nothing changes but the record of the call
Reverted(op, caller, amt, t) ==
    /\ lastTx' = [op |-> op, caller |-> caller, amount |-> amt, threshold |-> t,
                  reverted |-> TRUE]
    /\ UNCHANGED <<houseBalance, maxBet, balances, allowance, playerHistory, allGames>>

\* the record of a transaction that went through
Succeeded(op, caller, amt, t) ==
    lastTx' = [op |-> op, caller |-> caller, amount |-> amt, threshold |-> t,
               reverted |-> FALSE]

\* play(betAmount, threshold, guess) called by caller; h is the digest
Play(caller, b, t, guess, h) ==
    /\ Len(allGames) < MaxPlays
    /\ LET res == gameResult(caller, b, t, guess, h)
           pulled == moved(balances, caller, Contract, b)
       IN  IF \/ ~validBet(b)
              \/ ~validThreshold(t)
              \/ ~houseCovers(b)
              \/ ~canPull(caller, b)
              \/ (res.won /\ pulled[Contract] < res.payout)
           THEN Reverted("play", caller, b, t)
           ELSE /\ Succeeded("play", caller, b, t)
                /\ allowance' = [allowance EXCEPT ![caller] = @ - b]
                /\ IF res.won
                   THEN /\ houseBalance' = houseBalance - b
                        /\ balances' = moved(pulled, Contract, caller, res.payout)
                   ELSE /\ houseBalance' = houseBalance + b
                        /\ balances' = pulled
                /\ playerHistory' =
                      [playerHistory EXCEPT ![caller] = pushResult(@, res)]
                /\ allGames' = pushResult(allGames, res)
                /\ UNCHANGED maxBet
    /\ UNCHANGED <<pipelineVars, apiVars>>

\* the balance of the house after amt is added to it, amt left out
fundedBalanceSame(h, amt) == h

\* houseBalance += amount
fundedBalance(h, amt) == h + amt

\* fundHouse(amount) called by caller
FundHouse(caller, amt) ==
    /\ IF ~onlyOwner(caller) \/ ~canPull(caller, amt)
       THEN Reverted("fundHouse", caller, amt, 0)
       ELSE /\ Succeeded("fundHouse", caller, amt, 0)
            /\ balances' = moved(balances, caller, Contract, amt)
            /\ allowance' = [allowance EXCEPT ![caller] = @ - amt]
            /\ houseBalance' = fundedBalance(houseBalance, amt)
            /\ UNCHANGED <<maxBet, playerHistory, allGames>>
    /\ UNCHANGED <<pipelineVars, apiVars>>

\* withdrawHouse(amount) called by caller
WithdrawHouse(caller, amt) ==
    /\ IF \/ ~onlyOwner(caller)
          \/ amt > houseBalance
          \/ balances[Contract] < amt
       THEN Reverted("withdrawHouse", caller, amt, 0)
       ELSE /\ Succeeded("withdrawHouse", caller, amt, 0)
            /\ houseBalance' = houseBalance - amt
            /\ balances' = moved(balances, Contract, caller, amt)
            /\ UNCHANGED <<maxBet, allowance, playerHistory, allGames>>
    /\ UNCHANGED <<pipelineVars, apiVars>>

\* setMaxBet's require, letting every value through
validMaxBetAny(v) == TRUE

\* require(newMaxBet >= MIN_BET)
validMaxBet(v) == v >= MIN_BET

\* setMaxBet(newMaxBet) called by caller
SetMaxBet(caller, v) ==
    /\ IF ~onlyOwner(caller) \/ ~validMaxBet(v)
       THEN Reverted("setMaxBet", caller, v, 0)
       ELSE /\ Succeeded("setMaxBet", caller, v, 0)
            /\ maxBet' = v
            /\ UNCHANGED <<houseBalance, balances, allowance, playerHistory, allGames>>
    /\ UNCHANGED <<pipelineVars, apiVars>>

\* Hobo.approve(zillopoly, amount) called by caller
Approve(caller, amt) ==
    /\ Succeeded("approve", caller, amt, 0)
    /\ allowance' = [allowance EXCEPT ![caller] = amt]
    /\ UNCHANGED <<houseBalance, maxBet, balances, playerHistory, allGames>>
    /\ UNCHANGED <<pipelineVars, apiVars>>

\* Hobo.transfer(to, amount) called by caller
Transfer(caller, to, amt) ==
    /\ caller # to
    /\ IF balances[caller] < amt
       THEN Reverted("transfer", caller, amt, 0)
       ELSE /\ Succeeded("transfer", caller, amt, 0)
            /\ balances' = moved(balances, caller, to, amt)
            /\ UNCHANGED <<houseBalance, maxBet, allowance, playerHistory, allGames>>
    /\ UNCHANGED <<pipelineVars, apiVars>>

NextGame ==
    \/ \E c \in Players, bt \in PlayArgs, g \in Guesses, h \in HashValues :
          Play(c, bt[1], bt[2], g, h)
    \/ \E c \in Accounts, a \in HouseAmounts : FundHouse(c, a)
    \/ \E c \in Accounts, a \in HouseAmounts : WithdrawHouse(c, a)
    \/ \E c \in Accounts, v \in MaxBetValues : SetMaxBet(c, v)
    \/ \E c \in Accounts, a \in ApproveAmounts : Approve(c, a)
    \/ \E c \in Accounts, to \in Holders, a \in TransferAmounts : Transfer(c, to, a)

SpecGame == Init /\ [][NextGame]_vars

\* ------------------------------------------------- claims C16 .. C20

\* the step is a call of play / of an owner operation
PlayCalled == lastTx'.op = "play"
OwnerOpCalled == lastTx'.op \in {"fundHouse", "withdrawHouse", "setMaxBet"}

\* C16: play reverts, with houseBalance, the token balances, playerHistory
\* and allGames unchanged, whenever betAmount < MIN_BET, betAmount > maxBet,
\* threshold < 1, threshold > 99 or houseBalance < betAmount.
C16_PlayRejectsBadArguments ==
    [][(/\ PlayCalled
        /\ \/ lastTx'.amount < MIN_BET
           \/ lastTx'.amount > maxBet
           \/ lastTx'.threshold < 1
           \/ lastTx'.threshold > 99
           \/ houseBalance < lastTx'.amount) =>
          /\ lastTx'.reverted
          /\ UNCHANGED <<houseBalance, balances, playerHistory, allGames>>]_vars

\* play was called with threshold 100 by a player who could pay a bet the
\* house could cover, and reverted
C16_Witness ==
    /\ lastTx.op = "play"
    /\ lastTx.reverted
    /\ lastTx.threshold = 100
    /\ lastTx.amount >= MIN_BET
    /\ lastTx.amount <= maxBet
    /\ houseBalance >= lastTx.amount
    /\ balances[lastTx.caller] >= lastTx.amount
    /\ allowance[lastTx.caller] >= lastTx.amount

\* C17: a successful play with bet b that is won raises the player's token
\* balance by b net (payout 2b) and lowers houseBalance by b; one that is
\* lost lowers the player's balance by b, pays 0 and raises houseBalance by b.
C17_PlaySettlesBet ==
    [][(PlayCalled /\ ~lastTx'.reverted) =>
          LET p == lastTx'.caller
              b == lastTx'.amount
              res == Last(allGames')
          IN  /\ res.won =>
                    /\ res.payout = 2 * b
                    /\ balances'[p] = balances[p] + b
                    /\ houseBalance' = houseBalance - b
              /\ ~res.won =>
                    /\ res.payout = 0
                    /\ balances'[p] = balances[p] - b
                    /\ houseBalance' = houseBalance + b]_vars

\* the last call was a play that went through and was won
C17_Witness ==
    /\ lastTx.op = "play"
    /\ ~lastTx.reverted
    /\ allGames # << >>
    /\ Last(allGames).won
    /\ Last(allGames).payout = 2 * lastTx.amount

\* C18: fundHouse, withdrawHouse and setMaxBet go through only for the owner;
\* called by anyone else they revert and leave houseBalance, maxBet and the
\* token balances unchanged.
C18_OwnerOnly ==
    [][OwnerOpCalled =>
          /\ ~lastTx'.reverted => lastTx'.caller = Owner
          /\ lastTx'.caller # Owner =>
                /\ lastTx'.reverted
                /\ UNCHANGED <<houseBalance, maxBet, balances>>]_vars

\* a player called withdrawHouse for an amount the house holds, and it reverted
C18_Witness ==
    /\ lastTx.op = "withdrawHouse"
    /\ lastTx.caller \in Players
    /\ lastTx.reverted
    /\ houseBalance >= lastTx.amount

RECURSIVE SumHistoryLengths(_)
\* the lengths of the histories of the players in S, added up
SumHistoryLengths(S) ==
    IF S = {} THEN 0
    ELSE LET a == CHOOSE x \in S : TRUE
         IN  Len(getPlayerHistory(a)) + SumHistoryLengths(S \ {a})

\* C20: a successful play appends one GameResult, with the caller, the bet and
\* the threshold of the call, to playerHistory[caller] and to allGames; no
\* other step changes either; getTotalGames is the sum of the players'
\* history lengths.
C20_HistoryAppendOnly ==
    /\ [][IF PlayCalled /\ ~lastTx'.reverted
          THEN LET p == lastTx'.caller
                   res == Last(allGames')
               IN  /\ Len(allGames') = Len(allGames) + 1
                   /\ allGames' = Append(allGames, res)
                   /\ playerHistory' =
                         [playerHistory EXCEPT ![p] = Append(@, res)]
                   /\ res.player = p
                   /\ res.betAmount = lastTx'.amount
                   /\ res.threshold = lastTx'.threshold
          ELSE UNCHANGED <<playerHistory, allGames>>]_vars
    /\ [](getTotalGames = SumHistoryLengths(Accounts))

\* two plays have gone through and both are in the caller's history
C20_Witness ==
    /\ lastTx.op = "play"
    /\ ~lastTx.reverted
    /\ getTotalGames = 2
    /\ Len(getPlayerHistory(lastTx.caller)) = 2
    /\ Last(allGames) = Last(getPlayerHistory(lastTx.caller))

\* ------------------------------------------------- claims C21 .. C29

\* C21: the owner's setMaxBet(v) sets maxBet to v when v >= MIN_BET and
\* reverts, changing nothing, when v < MIN_BET; maxBet >= MIN_BET in every
\* reachable state.
C21_MaxBetAtLeastMinBet ==
    /\ [][(lastTx'.op = "setMaxBet" /\ lastTx'.caller = Owner) =>
             /\ lastTx'.amount >= MIN_BET =>
                   (~lastTx'.reverted /\ maxBet' = lastTx'.amount)
             /\ lastTx'.amount < MIN_BET =>
                   /\ lastTx'.reverted
                   /\ UNCHANGED <<houseBalance, maxBet, balances, allowance,
                                  playerHistory, allGames>>]_vars
    /\ [](maxBet >= MIN_BET)

\* the owner lowered maxBet to MIN_BET and then asked for less, which reverted
C21_Witness ==
    /\ lastTx.op = "setMaxBet"
    /\ lastTx.caller = Owner
    /\ lastTx.amount < MIN_BET
    /\ lastTx.reverted
    /\ maxBet = MIN_BET

\* C26: houseBalance never exceeds the tokens the contract holds and never
\* goes below zero, whatever fundHouse, withdrawHouse and play calls were made.
C26_HouseSolvent ==
    /\ houseBalance >= 0
    /\ houseBalance <= balances[Contract]

\* a play was won against a house that held exactly the bet
C26_Witness ==
    /\ lastTx.op = "play"
    /\ ~lastTx.reverted
    /\ allGames # << >>
    /\ Last(allGames).won
    /\ houseBalance = 0
    /\ balances[Contract] = 0

\* C27: in every recorded play the roll is in [1,100], the play is won iff
\* (UNDER and roll < threshold) or (OVER and roll > threshold), so a roll on
\* the threshold is lost, and the payout is twice the bet iff won, else 0.
C27_WinRule ==
    \A i \in 1..Len(allGames) :
        LET g == allGames[i]
        IN  /\ g.rolledNumber \in 1..100
            /\ g.won <=> \/ (g.guess = "UNDER" /\ g.rolledNumber < g.threshold)
                         \/ (g.guess = "OVER" /\ g.rolledNumber > g.threshold)
            /\ g.rolledNumber = g.threshold => ~g.won
            /\ g.payout = (IF g.won THEN 2 * g.betAmount ELSE 0)

\* a roll on the threshold has been recorded for an UNDER and for an OVER guess
C27_Witness ==
    \E i, j \in 1..Len(allGames) :
        /\ allGames[i].rolledNumber = allGames[i].threshold
        /\ allGames[j].rolledNumber = allGames[j].threshold
        /\ allGames[i].guess = "UNDER"
        /\ allGames[j].guess = "OVER"
        /\ ~allGames[i].won
        /\ ~allGames[j].won

\* the ids of a sequence of outcome entries increase strictly
Increasing(es) == \A i, j \in 1..Len(es) : i < j => es[i].gameId < es[j].gameId

\* C22: within one invocation the ids are visited in increasing order: the
\* fetch and the write for id g come before any fetch or write for a greater
\* id, and the outcome entries are in increasing id order.
C22_IncreasingOrder ==
    \A k \in Inst :
        /\ \A i, j \in 1..Len(calls[k]) :
              i < j =>
                 /\ calls[k][i].gameId <= calls[k][j].gameId
                 /\ calls[k][i].gameId = calls[k][j].gameId =>
                       (calls[k][i].kind = "fetch" /\ calls[k][j].kind = "write")
        /\ Increasing(results[k])
        /\ Increasing(ret[k].results)

\* an invocation fetched and wrote for one id, went on to a greater id, and
\* returned a report of two entries or more
C22_Witness ==
    \E k \in Inst :
        /\ ret[k].kind = "summary"
        /\ Len(ret[k].results) >= 2
        /\ Len(calls[k]) >= 3
        /\ calls[k][1].kind = "fetch"
        /\ calls[k][2].kind = "write"
        /\ calls[k][3].gameId > calls[k][1].gameId

\* C23: within one invocation the external calls follow one another: a fetch
\* that gave a listing is followed by the write for the same id, and that
\* write has settled (completed or failed) before the next fetch; while the
\* write is awaited nothing else is under way.
C23_StrictlySequential ==
    \A k \in Inst :
        /\ \A j \in 1..Len(calls[k]) :
              /\ (calls[k][j].kind = "fetch" /\ ~EnrichmentFailed(calls[k][j].resp)) =>
                    IF j < Len(calls[k])
                    THEN /\ calls[k][j + 1].kind = "write"
                         /\ calls[k][j + 1].gameId = calls[k][j].gameId
                    ELSE pc[k] = "write"
              /\ calls[k][j].kind = "write" =>
                    /\ j > 1
                    /\ calls[k][j - 1].kind = "fetch"
                    /\ calls[k][j - 1].gameId = calls[k][j].gameId
                    /\ calls[k][j].outcome \in
                          {"accepted", "InvalidState", "TransactionError"}
        /\ pc[k] = "write" =>
              /\ calls[k] # << >>
              /\ Last(calls[k]).kind = "fetch"
              /\ Last(calls[k]).gameId = currentGameId(k)

\* a write failed and only then the fetch for the next id was made
C23_Witness ==
    \E k \in Inst :
        /\ Len(calls[k]) >= 3
        /\ calls[k][2].kind = "write"
        /\ calls[k][2].outcome = "TransactionError"
        /\ calls[k][3].kind = "fetch"
        /\ calls[k][3].gameId = calls[k][2].gameId + 1

\* C28: every id a returned report lists with status success has its slot
\* Initialized in the ledger; success is never reported for a slot that is
\* still Pending.
C28_NoFalseSuccess ==
    \A k \in Inst :
        ret[k].kind = "summary" =>
            \A j \in 1..Len(ret[k].results) :
                ret[k].results[j].status = "success" =>
                    /\ ret[k].results[j].gameId \in DOMAIN slots
                    /\ slots[ret[k].results[j].gameId].status # "Pending"

\* the handler is started on a payload whose range is empty
\* (endGameId = startGameId - 1), which the ledger itself never issues
ReceiveEmpty(k, s) ==
    /\ pc[k] \in {"idle", "done"}
    /\ pc' = [pc EXCEPT ![k] = "fetch"]
    /\ note' = [note EXCEPT ![k] =
                  [player |-> CHOOSE p \in Players : TRUE,
                   startGameId |-> s, endGameId |-> s - 1]]
    /\ idx' = [idx EXCEPT ![k] = 0]
    /\ fetched' = [fetched EXCEPT ![k] = NoListing]
    /\ results' = [results EXCEPT ![k] = << >>]
    /\ ret' = [ret EXCEPT ![k] = NoReturn]
    /\ calls' = [calls EXCEPT ![k] = << >>]
    /\ before' = [before EXCEPT ![k] = slots]
    /\ disturbed' = [disturbed EXCEPT ![k] = FALSE]
    /\ UNCHANGED ledgerVars
    /\ UNCHANGED <<apiVars, gameVars>>

\* the pipeline, with payloads of empty range delivered as well
NextFrame ==
    \/ Next
    \/ \E k \in SeqInst, s \in 0..MaxGames : ReceiveEmpty(k, s)

SpecFrame == Init /\ [][NextFrame]_vars

\* this step of invocation k is the settling of its evm.write
WriteSettled(k) == pc[k] = "write" /\ Len(calls'[k]) = Len(calls[k]) + 1

\* C29: an invocation writes to the ledger at most once per id, only for ids
\* of its notification's range and only right after an enrichment that
\* succeeded for that id; slots outside the range are never changed; a range
\* with endGameId < startGameId gives no fetch and no write.
C29_Frame ==
    /\ [][\A k \in SeqInst :
             /\ WriteSettled(k) =>
                   LET g == Last(calls'[k]).gameId
                   IN  /\ InRange(k, g)
                       /\ Last(calls[k]).kind = "fetch"
                       /\ Last(calls[k]).gameId = g
                       /\ ~EnrichmentFailed(Last(calls[k]).resp)
                       /\ \A j \in WriteCalls(k) : calls[k][j].gameId # g
                       /\ \A h \in DOMAIN slots : h # g => slots'[h] = slots[h]
             /\ \A h \in DOMAIN slots : ~InRange(k, h) => slots'[h] = slots[h]]_vars
    /\ [](\A k \in SeqInst :
             note[k].endGameId < note[k].startGameId => calls[k] = << >>)

\* a payload of empty range was handled while the ledger held slots: the
\* report is empty and nothing was fetched or written
C29_Witness ==
    \E k \in SeqInst :
        /\ pc[k] = "done"
        /\ note[k].endGameId < note[k].startGameId
        /\ note[k].startGameId \in DOMAIN slots
        /\ ret[k].kind = "summary"
        /\ ret[k].results = << >>
        /\ calls[k] = << >>
        /\ slots = before[k]

ConcGames == 2     \* game ids the ledger hands out in the concurrent runs

\* Several orchestrator instances each handle one notification (the same one
\* or different ones) at the same time, their steps interleaved in any order.
NextConcurrent ==
    \/ \E p \in Players, n \in 0..ConcGames :
          nextGameId + n <= ConcGames /\ RequestBatch(p, n)
    \/ \E k \in Inst, b \in 1..ConcGames : pc[k] = "idle" /\ Receive(k, b)
    \/ \E k \in Inst : Fetch(k)
    \/ \E k \in Inst : Write(k)
    \/ \E k \in Inst : Return(k)

SpecConcurrent == Init /\ [][NextConcurrent]_vars

\* every write of invocation k reached the ledger (none was lost on the way)
AllWritesDelivered(k) ==
    \A j \in WriteCalls(k) : calls[k][j].outcome \in {"accepted", "InvalidState"}

\* the ids for which invocation k lost the race: its write was refused
\* because the slot had been initialised meanwhile
LostIds(k) ==
    {calls[k][j].gameId : j \in {i \in WriteCalls(k) : calls[k][i].outcome = "InvalidState"}}

\* C24: with several instances working on the same or overlapping ranges in
\* any interleaving, a slot's values are set once and never overwritten,
\* every instance finishes its range with a complete report, and an instance
\* that loses the race for a slot reports that slot as success.
C24_ConcurrentInstances ==
    /\ [][\A g \in DOMAIN slots :
             slots[g].status # "Pending" => slots'[g] = slots[g]]_vars
    /\ [](\A k \in Inst :
             (pc[k] = "done" /\ AllWritesDelivered(k)) =>
                 /\ FullReport(k)
                 /\ \A g \in LostIds(k) :
                       \E j \in 1..Len(ret[k].results) :
                           /\ ret[k].results[j].gameId = g
                           /\ ret[k].results[j].status = "success")

\* ids handed out in the specification with interrupted invocations
ReplayGames == 2

\* the invocation is cut off mid-batch (timeout, crash): its locals are lost
\* and nothing is returned; the ledger is not told
Interrupt(k) ==
    /\ Running(k)
    /\ pc' = [pc EXCEPT ![k] = "done"]
    /\ ret' = [ret EXCEPT ![k] = [kind |-> "interrupted", results |-> << >>]]
    /\ idx' = [idx EXCEPT ![k] = 0]
    /\ fetched' = [fetched EXCEPT ![k] = NoListing]
    /\ results' = [results EXCEPT ![k] = << >>]
    /\ UNCHANGED <<ledgerVars, note, calls, before, disturbed>>
    /\ UNCHANGED <<apiVars, gameVars>>

\* the pipeline with invocations that can be cut off
NextReplay ==
    \/ \E p \in Players, n \in 0..ReplayGames :
          nextGameId + n <= ReplayGames /\ RequestBatch(p, n)
    \/ \E k \in SeqInst, b \in 1..ReplayGames : Receive(k, b)
    \/ \E k \in SeqInst : Fetch(k)
    \/ \E k \in SeqInst : Write(k)
    \/ \E k \in SeqInst : Return(k)
    \/ \E k \in SeqInst : Interrupt(k)

\* the enrichment for id g gives a listing / the write for g reaches the
\* ledger, which accepts it if the slot is Pending
GoodFetch(k, g) == Fetch(k) /\ currentGameId(k) = g /\ pc'[k] = "write"
GoodWrite(k, g) ==
    Write(k) /\ currentGameId(k) = g /\ Last(calls'[k]).outcome # "TransactionError"

\* every notification keeps being replayed, awaited calls settle, for every
\* id enrichment and submission succeed in the end, and interruptions cease
ReplayFairness ==
    /\ \A k \in SeqInst :
          /\ \A b \in 1..ReplayGames : SF_vars(Receive(k, b))
          /\ WF_vars(Fetch(k))
          /\ WF_vars(Write(k))
          /\ WF_vars(Return(k))
          /\ \A g \in 0..(ReplayGames - 1) :
                SF_vars(GoodFetch(k, g)) /\ SF_vars(GoodWrite(k, g))
    /\ <>[][~(\E k \in SeqInst : Interrupt(k))]_vars

SpecReplay == Init /\ [][NextReplay]_vars /\ ReplayFairness

\* batch b was being handled when the invocation was cut off
InterruptedOn(b) ==
    /\ b <= Len(batches)
    /\ \E k \in SeqInst : ret[k].kind = "interrupted" /\ note[k] = batches[b]

\* every slot of batch b is Initialized
Completed(b) ==
    /\ b <= Len(batches)
    /\ \A g \in batches[b].startGameId..batches[b].endGameId :
          slots[g].status = "Initialized"

\* C25: cutting an invocation off changes no slot (accepted ones stay
\* Initialized with their values, the others stay Pending), and replaying the
\* notification brings every slot of its range to Initialized in the end.
C25_InterruptionAndReplay ==
    /\ [][(\A k \in SeqInst : ret'[k].kind = "interrupted" /\ ret[k].kind # "interrupted"
               => slots' = slots)
          /\ \A g \in DOMAIN slots :
                slots[g].status = "Initialized" => slots'[g] = slots[g]]_vars
    /\ \A b \in 1..MaxGames : InterruptedOn(b) ~> Completed(b)

====
